---------------------------- MODULE Spec2Model ----------------------------
(***************************************************************************)
(* A model of eztw/tdh.py: the decoding layer over the TDH metadata API.   *)
(*                                                                         *)
(*   - read_wstring_at      (offset string reader)                         *)
(*   - iterate_array_of     (fixed-size record array generator)            *)
(*   - the per-field loop of tdh_get_provider_events (length/count         *)
(*     resolution), and its event-name resolution                          *)
(*   - tdh_enumerate_providers / tdh_get_provider_events as called by      *)
(*     threads through functools.cache, with the two-phase buffer          *)
(*     negotiation against the external TDH functions                      *)
(*                                                                         *)
(* Buffers are sequences of bytes (0..255); a byte offset o of the source  *)
(* is position o+1 of the sequence.  Python's None is the empty sequence   *)
(* <<>> and a present optional value x is <<x>>.  Text is the sequence of  *)
(* its 16-bit code units (wchar_t is 2 bytes where tdh.dll exists).        *)
(***************************************************************************)
EXTENDS Integers, Sequences, FiniteSets, TLC

VARIABLES
    sbuf,      \* read_wstring_at harness: the buffer `buf`
    stail,     \* the process memory that follows the buffer (mapped bytes)
    sres,      \* the call made on sbuf and its outcome
    abuf,      \* iterate_array_of harness: the buffer `buf`
    gen,       \* the generator object's frame: offset, size, n, cur_idx, i, state
    yielded,   \* the records the caller has received from the generator so far
    ftop,      \* field loop: TopLevelPropertyCount of the event being decoded
    fields,    \* field loop: the list `fields` built so far
    fstate,    \* field loop: where it is, the exception that ended it and the record it ended on
    thr,       \* per thread: the frame of its call to an enumeration entry point
    cache,     \* functools.cache dictionaries of both entry points, by key
    heap,      \* per key: the list objects the body has returned, in order of creation
    nbody,     \* per key: how many times the wrapped function body was entered
    nok        \* per key: how many times the wrapped function body returned

strVars == <<sbuf, stail, sres>>
arrVars == <<abuf, gen, yielded>>
fldVars == <<ftop, fields, fstate>>
encVars == <<thr, cache, heap, nbody, nok>>
vars == <<sbuf, stail, sres, abuf, gen, yielded, ftop, fields, fstate,
          thr, cache, heap, nbody, nok>>

(***************************************************************************)
(* Bounds of the model.                                                    *)
(***************************************************************************)
MaxBuf == 5        \* longest buffer handed to read_wstring_at, in bytes
MaxTail == 2       \* mapped bytes after that buffer
MaxArrBuf == 4     \* longest buffer handed to iterate_array_of, in bytes
MaxRecSize == 2    \* largest sizeof(cls) of the array harness
MaxCount == 3      \* largest array_size of the array harness
MaxProps == 2      \* largest TopLevelPropertyCount of the field loop harness
MaxQueries == 3    \* body executions before the callers stop calling
MaxTailUnits == 2  \* mapped 16-bit units after a buffer the queries filled

ByteVals == {0, 32, 65}        \* NUL, ' ', 'A'

RECURSIVE SeqsUpTo(_, _)
SeqsUpTo(S, n) ==
    IF n = 0 THEN {<<>>}
    ELSE LET shorter == SeqsUpTo(S, n - 1)
         IN  shorter \cup {Append(s, x) : s \in {t \in shorter : Len(t) = n - 1}, x \in S}

None == <<>>
Some(x) == <<x>>

(***************************************************************************)
(* Outcomes.  A call either returns a value or raises; exc is the class of *)
(* the exception raised ("" when none), msg the text that tells the raise  *)
(* sites of one class apart.                                               *)
(***************************************************************************)
Ok(v) == [exc |-> "", msg |-> "", val |-> v]
Raise(e, m) == [exc |-> e, msg |-> m, val |-> None]

(***************************************************************************)
(* read_wstring_at(buf, offset), tdh.py 32-35.                             *)
(*                                                                         *)
(* ctypes.wstring_at(address) scans 16-bit units from the address until a  *)
(* zero unit; it knows nothing of the buffer it starts in.  What follows   *)
(* the buffer in memory is `tail`; past the end of buf \o tail nothing is  *)
(* mapped and the read faults.  The result also reports `hi`, the number   *)
(* of bytes of memory (counted from the buffer start) the scan touched.    *)
(***************************************************************************)
WCHAR_SIZE == 2

UnitAt(mem, pos) == mem[pos + 1] + 256 * mem[pos + 2]

RECURSIVE wstring_at(_, _)
wstring_at(mem, pos) ==
    IF pos + WCHAR_SIZE > Len(mem)
    THEN [exc |-> "AccessViolation", text |-> <<>>, hi |-> pos + WCHAR_SIZE]
    ELSE IF UnitAt(mem, pos) = 0
         THEN [exc |-> "", text |-> <<>>, hi |-> pos + WCHAR_SIZE]
         ELSE LET rest == wstring_at(mem, pos + WCHAR_SIZE)
              IN  [exc |-> rest.exc,
                   text |-> IF rest.exc = "" THEN <<UnitAt(mem, pos)>> \o rest.text ELSE <<>>,
                   hi |-> rest.hi]

OffsetRejected(offset, buflen) == offset > buflen

read_wstring_at(buf, tail, offset) ==
    IF OffsetRejected(offset, Len(buf))
    THEN [exc |-> "EztwTdhException", msg |-> "Wchar string out of bounds",
          val |-> None, hi |-> 0]
    ELSE LET r == wstring_at(buf \o tail, offset)
         IN  [exc |-> r.exc, msg |-> "",
              val |-> IF r.exc = "" THEN Some(r.text) ELSE None, hi |-> r.hi]

(***************************************************************************)
(* str.rstrip(' '): drop the trailing U+0020 units, and nothing else.      *)
(***************************************************************************)
SPACE == 32

RECURSIVE rstrip(_)
rstrip(s) ==
    IF s = <<>> THEN s
    ELSE IF s[Len(s)] = SPACE THEN rstrip(SubSeq(s, 1, Len(s) - 1)) ELSE s

\* a faulty variant of ChosenNameOffset: the task name is preferred
NameFromTaskFirst(EventNameOffset, TaskNameOffset) ==
    IF TaskNameOffset > 0 THEN TaskNameOffset
    ELSE IF EventNameOffset > 0 THEN EventNameOffset ELSE 0

(***************************************************************************)
(* The event name of tdh_get_provider_events, tdh.py 330-335: the string   *)
(* at EventNameOffset, else the one at TaskNameOffset, else None.          *)
(***************************************************************************)
ChosenNameOffset(EventNameOffset, TaskNameOffset) ==
    IF EventNameOffset > 0 THEN EventNameOffset
    ELSE IF TaskNameOffset > 0 THEN TaskNameOffset ELSE 0

resolve_event_name(buf, tail, EventNameOffset, TaskNameOffset) ==
    LET off == ChosenNameOffset(EventNameOffset, TaskNameOffset)
    IN  IF off = 0
        THEN [exc |-> "", msg |-> "", val |-> None, hi |-> 0]
        ELSE LET r == read_wstring_at(buf, tail, off)
             IN  IF r.exc # "" THEN r
                 ELSE [r EXCEPT !.val = Some(rstrip(r.val[1]))]

(***************************************************************************)
(* iterate_array_of(buf, offset, cls, array_size), tdh.py 66-79: a         *)
(* generator.  Its frame holds cur_idx and the loop counter i; each        *)
(* resumption either yields the copy of one record, raises, or ends the    *)
(* loop (StopIteration).  `size` is ctypes.sizeof(cls).                    *)
(***************************************************************************)
NewGen(offset, size, n) ==
    [offset |-> offset, size |-> size, n |-> n, cur_idx |-> offset, i |-> 0,
     state |-> "suspended"]

\* a faulty variant of ArrayOverflows: a record ending at len(buf) is refused
ArrayOverflowsOffByOne(new_idx, buflen) == new_idx >= buflen

ArrayOverflows(new_idx, buflen) == new_idx > buflen

\* buf[cur_idx:new_idx]
Slice(buf, lo, hi) == SubSeq(buf, lo + 1, hi)

array_next(buf, g) ==
    IF g.i < g.n
    THEN LET new_idx == g.cur_idx + g.size
         IN  IF ArrayOverflows(new_idx, Len(buf))
             THEN [kind |-> "raise", rec |-> <<>>,
                   g |-> [g EXCEPT !.state = "EztwTdhException"]]
             ELSE [kind |-> "yield", rec |-> Slice(buf, g.cur_idx, new_idx),
                   g |-> [g EXCEPT !.cur_idx = new_idx, !.i = g.i + 1]]
    ELSE [kind |-> "stop", rec |-> <<>>, g |-> [g EXCEPT !.state = "StopIteration"]]

(***************************************************************************)
(* One iteration of the field loop of tdh_get_provider_events, tdh.py      *)
(* 342-373, on one EVENT_PROPERTY_INFO record p = [Flags, NameOffset,      *)
(* InType, count, length] and the list `fields` decoded so far.            *)
(*                                                                         *)
(* A resolved length or count is an int (the fixed value) or a str (the    *)
(* name of the field that holds it): [kind |-> "int", num |-> n] or        *)
(* [kind |-> "str", text |-> name]; unresolved is [kind |-> "None"].       *)
(***************************************************************************)
PropertyParamLength == 2
PropertyParamCount == 4
PropertyParamFixedLength == 16
PropertyParamFixedCount == 32
TDH_INTYPE_MAX_VALUE == 36

\* Flags & bit, for a bit that is a power of two
HasFlag(flags, bit) == (flags \div bit) % 2 = 1

IsNone == [kind |-> "None", num |-> 0, text |-> <<>>]
IntVal(n) == [kind |-> "int", num |-> n, text |-> <<>>]
StrVal(t) == [kind |-> "str", num |-> 0, text |-> t]

\* the guard of lines 351 and 362
IndexTooHigh(index, nfields) == index > nfields

\* lines 346-354 (what = "length") and 357-365 (what = "count")
resolve_ref(fields_, flags, fixedBit, paramBit, value, what) ==
    IF HasFlag(flags, fixedBit) THEN Ok(IntVal(value))
    ELSE IF HasFlag(flags, paramBit)
         THEN IF IndexTooHigh(value, Len(fields_))
              THEN Raise("EztwTdhException", what \o " field index too high")
              ELSE IF value >= Len(fields_)
                   THEN Raise("IndexError", "list index out of range")
                   ELSE Ok(StrVal(fields_[value + 1].name))
         ELSE Ok(IsNone)

\* a faulty variant of LengthCountExclusive: the assert is dropped
BothResolvedAllowed(length_field, count_field) == TRUE

\* the assertion of line 367
LengthCountExclusive(length_field, count_field) ==
    count_field.kind = "None" \/ length_field.kind = "None"

\* lines 369-371: a known in-type becomes the enum member, another stays an int
resolve_intype(intype_value) ==
    IF intype_value <= TDH_INTYPE_MAX_VALUE
    THEN [kind |-> "TDH_INTYPE", num |-> intype_value]
    ELSE [kind |-> "int", num |-> intype_value]

\* nameRes is the outcome of sanitize_name(read_wstring_at(event_info_buf, p.NameOffset))
decode_property(fields_, p, nameRes) ==
    IF nameRes.exc # "" THEN Raise(nameRes.exc, nameRes.msg)
    ELSE
    LET length_field == resolve_ref(fields_, p.Flags, PropertyParamFixedLength,
                                    PropertyParamLength, p.length, "length")
    IN  IF length_field.exc # "" THEN length_field
        ELSE
        LET count_field == resolve_ref(fields_, p.Flags, PropertyParamFixedCount,
                                       PropertyParamCount, p.count, "count")
        IN  IF count_field.exc # "" THEN count_field
            ELSE IF ~LengthCountExclusive(length_field.val, count_field.val)
                 THEN Raise("AssertionError", "")
                 ELSE Ok([name |-> nameRes.val[1],
                          type |-> resolve_intype(p.InType),
                          length |-> length_field.val,
                          count |-> count_field.val])

(***************************************************************************)
(* The ctypes structures, tdh.py 38-49, 82-121, 135-148, read from bytes   *)
(* as from_buffer_copy reads them (little endian, no padding needed).      *)
(***************************************************************************)
SIZEOF_TRACE_PROVIDER_INFO == 24
SIZEOF_PROVIDER_ENUMERATION_INFO == 8
SIZEOF_EVENT_DESCRIPTOR == 16
SIZEOF_TRACE_EVENT_INFO == 112
SIZEOF_PROVIDER_EVENT_INFO == 8
SIZEOF_EVENT_PROPERTY_INFO == 24

UCHAR_at(b, off) == b[off + 1]
USHORT_at(b, off) == b[off + 1] + 256 * b[off + 2]
ULONG_at(b, off) ==
    b[off + 1] + 256 * b[off + 2] + 65536 * b[off + 3] + 16777216 * b[off + 4]

TRACE_PROVIDER_INFO(b) ==
    [ProviderGuid |-> Slice(b, 0, 16),
     SchemaSource |-> ULONG_at(b, 16),
     ProviderNameOffset |-> ULONG_at(b, 20)]

EVENT_DESCRIPTOR(b) ==
    [Id |-> USHORT_at(b, 0), Version |-> UCHAR_at(b, 2), Channel |-> UCHAR_at(b, 3),
     Level |-> UCHAR_at(b, 4), Opcode |-> UCHAR_at(b, 5), Task |-> USHORT_at(b, 6),
     Keyword |-> Slice(b, 8, 16)]

TRACE_EVENT_INFO(b) ==
    [EventDescriptor |-> EVENT_DESCRIPTOR(Slice(b, 32, 48)),
     TaskNameOffset |-> ULONG_at(b, 68),
     EventNameOffset |-> ULONG_at(b, 92),
     PropertyCount |-> ULONG_at(b, 100),
     TopLevelPropertyCount |-> ULONG_at(b, 104)]

EVENT_PROPERTY_INFO(b) ==
    [Flags |-> ULONG_at(b, 0), NameOffset |-> ULONG_at(b, 4),
     InType |-> USHORT_at(b, 8), count |-> USHORT_at(b, 16), length |-> USHORT_at(b, 18)]

\* the 64-bit Keyword is kept as its 8 bytes, low byte first;
\* Keyword & 0x0000FFFFFFFFFFFF clears the two high bytes
MaskKeyword(k) == SubSeq(k, 1, 6) \o <<0, 0>>

\* str(GUID): the canonical text is made of Data1-Data2-Data3-Data4; the model
\* keeps the four parts
guid_str(b) ==
    [Data1 |-> ULONG_at(b, 0), Data2 |-> USHORT_at(b, 4), Data3 |-> USHORT_at(b, 6),
     Data4 |-> Slice(b, 8, 16)]

\* sanitize_name: every unit that is no ASCII letter, digit or underscore
\* becomes an underscore
IsWordUnit(u) ==
    (u >= 48 /\ u <= 57) \/ (u >= 65 /\ u <= 90) \/ (u >= 97 /\ u <= 122) \/ u = 95
sanitize_name(t) == [i \in 1 .. Len(t) |-> IF IsWordUnit(t[i]) THEN t[i] ELSE 95]

\* TDH_DECODING_SOURCE(value): the enum has members 0..4, another value raises
DecodingSourceMax == 4
IsDecodingSource(v) == v >= 0 /\ v <= DecodingSourceMax

(***************************************************************************)
(* The body of tdh_enumerate_providers after the negotiation, tdh.py       *)
(* 240-253, on the filled buffer.                                          *)
(***************************************************************************)
RECURSIVE providers_loop(_, _, _, _)
providers_loop(buf, tail, g, providers) ==
    LET step == array_next(buf, g)
    IN  CASE step.kind = "stop" -> Ok(providers)
          [] step.kind = "raise" ->
                Raise("EztwTdhException", "Array of TRACE_PROVIDER_INFO out of bounds")
          [] OTHER ->
                LET tpi == TRACE_PROVIDER_INFO(step.rec)
                IN  IF ~IsDecodingSource(tpi.SchemaSource)
                    THEN Raise("ValueError", "not a valid TDH_DECODING_SOURCE")
                    ELSE LET name == read_wstring_at(buf, tail, tpi.ProviderNameOffset)
                         IN  IF name.exc # "" THEN Raise(name.exc, name.msg)
                             ELSE providers_loop(buf, tail, step.g,
                                      Append(providers,
                                             [guid |-> guid_str(tpi.ProviderGuid),
                                              name |-> name.val[1],
                                              schema |-> tpi.SchemaSource]))

decode_providers(buf, tail) ==
    IF Len(buf) < SIZEOF_PROVIDER_ENUMERATION_INFO
    THEN Raise("ValueError", "Buffer size too small")
    ELSE providers_loop(buf, tail,
             NewGen(SIZEOF_PROVIDER_ENUMERATION_INFO, SIZEOF_TRACE_PROVIDER_INFO,
                    ULONG_at(buf, 0)),
             <<>>)

(***************************************************************************)
(* The decoding of one event detail buffer, tdh.py 322-375.                *)
(***************************************************************************)
RECURSIVE fields_loop(_, _, _, _)
fields_loop(buf, tail, g, fields_) ==
    LET step == array_next(buf, g)
    IN  CASE step.kind = "stop" -> Ok(fields_)
          [] step.kind = "raise" ->
                Raise("EztwTdhException", "Array of EVENT_PROPERTY_INFO out of bounds")
          [] OTHER ->
                LET p == EVENT_PROPERTY_INFO(step.rec)
                    raw == read_wstring_at(buf, tail, p.NameOffset)
                    nameRes == IF raw.exc # "" THEN Raise(raw.exc, raw.msg)
                               ELSE Ok(Some(sanitize_name(raw.val[1])))
                    r == decode_property(fields_, p, nameRes)
                IN  IF r.exc # "" THEN r
                    ELSE fields_loop(buf, tail, step.g, Append(fields_, r.val))

decode_event(event_info_buf, tail, provider_guid) ==
    IF Len(event_info_buf) < SIZEOF_TRACE_EVENT_INFO
    THEN Raise("ValueError", "Buffer size too small")
    ELSE
    LET tei == TRACE_EVENT_INFO(event_info_buf)
        event_name == resolve_event_name(event_info_buf, tail,
                                         tei.EventNameOffset, tei.TaskNameOffset)
    IN  IF event_name.exc # "" THEN Raise(event_name.exc, event_name.msg)
        ELSE
        LET fs == fields_loop(event_info_buf, tail,
                      NewGen(SIZEOF_TRACE_EVENT_INFO, SIZEOF_EVENT_PROPERTY_INFO,
                             tei.TopLevelPropertyCount),
                      <<>>)
        IN  IF fs.exc # "" THEN fs
            ELSE Ok([provider_guid |-> provider_guid,
                     id |-> tei.EventDescriptor.Id,
                     version |-> tei.EventDescriptor.Version,
                     name |-> event_name.val,
                     keyword |-> MaskKeyword(tei.EventDescriptor.Keyword),
                     fields |-> fs.val])

(***************************************************************************)
(* Harness 1: one call of read_wstring_at, or one resolution of an event   *)
(* name, on an arbitrary small buffer followed by arbitrary mapped memory. *)
(***************************************************************************)
NoResult == [exc |-> "", msg |-> "", val |-> None, hi |-> 0]
Offsets == 0 .. MaxBuf + 1

StrIdle == sbuf = <<>> /\ stail = <<>> /\ sres = [op |-> "none", a |-> 0, b |-> 0, r |-> NoResult]
ArrIdle == abuf = <<>> /\ gen = NewGen(0, 1, 0) /\ yielded = <<>>
FldIdle == ftop = 0 /\ fields = <<>> /\ fstate = [pc |-> "idle", exc |-> "", msg |-> "", last |-> None]
EncIdle == thr = <<>> /\ cache = <<>> /\ heap = <<>> /\ nbody = <<>> /\ nok = <<>>

InitStr ==
    /\ sbuf \in SeqsUpTo(ByteVals, MaxBuf)
    /\ stail \in SeqsUpTo(ByteVals, MaxTail)
    /\ sres = [op |-> "none", a |-> 0, b |-> 0, r |-> NoResult]
    /\ ArrIdle /\ FldIdle /\ EncIdle

CallReadWString ==
    /\ sres.op = "none"
    /\ \E offset \in Offsets :
         sres' = [op |-> "read_wstring_at", a |-> offset, b |-> 0,
                  r |-> read_wstring_at(sbuf, stail, offset)]
    /\ UNCHANGED <<sbuf, stail, arrVars, fldVars, encVars>>

CallResolveEventName ==
    /\ sres.op = "none"
    /\ \E EventNameOffset \in Offsets, TaskNameOffset \in Offsets :
         sres' = [op |-> "event_name", a |-> EventNameOffset, b |-> TaskNameOffset,
                  r |-> resolve_event_name(sbuf, stail, EventNameOffset, TaskNameOffset)]
    /\ UNCHANGED <<sbuf, stail, arrVars, fldVars, encVars>>

NextStr == CallReadWString \/ CallResolveEventName
SpecStr == InitStr /\ [][NextStr]_vars

(***************************************************************************)
(* Harness 2: a caller draining iterate_array_of with next().              *)
(***************************************************************************)
InitArr ==
    /\ abuf \in SeqsUpTo(ByteVals, MaxArrBuf)
    /\ \E offset \in 0 .. MaxArrBuf + 1, size \in 1 .. MaxRecSize, n \in 0 .. MaxCount :
         gen = NewGen(offset, size, n)
    /\ yielded = <<>>
    /\ StrIdle /\ FldIdle /\ EncIdle

GenNext ==
    /\ gen.state = "suspended"
    /\ LET r == array_next(abuf, gen)
       IN  /\ gen' = r.g
           /\ yielded' = IF r.kind = "yield" THEN Append(yielded, r.rec) ELSE yielded
    /\ UNCHANGED <<abuf, strVars, fldVars, encVars>>

NextArr == GenNext
SpecArr == InitArr /\ [][NextArr]_vars

(***************************************************************************)
(* Harness 3: the field loop of one event, fed one property record per     *)
(* iteration, until TopLevelPropertyCount fields are appended.             *)
(***************************************************************************)
FlagBits == {PropertyParamLength, PropertyParamCount,
             PropertyParamFixedLength, PropertyParamFixedCount}

RECURSIVE SumOf(_)
SumOf(S) == IF S = {} THEN 0 ELSE LET x == CHOOSE y \in S : TRUE IN x + SumOf(S \ {x})

FlagWords == {SumOf(S) : S \in SUBSET FlagBits}

\* the sanitized field names the harness buffer holds ("a", "b"), with the
\* in-type stored with each, or a name offset past the buffer end
NamedProps ==
    {[nameRes |-> Ok(Some(<<97>>)), InType |-> 8],
     [nameRes |-> Ok(Some(<<98>>)), InType |-> TDH_INTYPE_MAX_VALUE + 1],
     [nameRes |-> Raise("EztwTdhException", "Wchar string out of bounds"), InType |-> 0]}

InitFld ==
    /\ ftop \in 0 .. MaxProps
    /\ fields = <<>>
    /\ fstate = [pc |-> "loop", exc |-> "", msg |-> "", last |-> None]
    /\ StrIdle /\ ArrIdle /\ EncIdle

DecodeProperty ==
    /\ fstate.pc = "loop"
    /\ Len(fields) < ftop
    /\ \E flags \in FlagWords, length \in 0 .. MaxProps, count \in 0 .. MaxProps,
          np \in NamedProps :
         LET p == [Flags |-> flags, InType |-> np.InType, count |-> count, length |-> length]
             r == decode_property(fields, p, np.nameRes)
         IN  IF r.exc = ""
             THEN fields' = Append(fields, r.val) /\ UNCHANGED fstate
             ELSE fstate' = [pc |-> "raised", exc |-> r.exc, msg |-> r.msg,
                             last |-> Some([p |-> p, nameOk |-> np.nameRes.exc = ""])]
                  /\ UNCHANGED fields
    /\ UNCHANGED <<ftop, strVars, arrVars, encVars>>

\* line 375: the loop is over, the event is appended with its fields
AppendEvent ==
    /\ fstate.pc = "loop"
    /\ Len(fields) = ftop
    /\ fstate' = [fstate EXCEPT !.pc = "appended"]
    /\ UNCHANGED <<ftop, fields, strVars, arrVars, encVars>>

NextFld == DecodeProperty \/ AppendEvent
SpecFld == InitFld /\ [][NextFld]_vars

(***************************************************************************)
(* The two entry points behind functools.cache, called by threads.         *)
(*                                                                         *)
(* The wrapper makes a key of the call's positional and keyword arguments  *)
(* as they were written, so tdh_get_provider_events(g) and                 *)
(* tdh_get_provider_events(provider_guid=g) have different keys.  It looks *)
(* the key up; on a hit it returns the cached object, on a miss it runs    *)
(* the body without holding any lock and stores what the body returns.  An *)
(* exception leaves the cache as it was.                                   *)
(*                                                                         *)
(* The TDH functions belong to the operating system: each call returns     *)
(* any status, and a successful fill leaves any of the sample buffers of   *)
(* the negotiated size in the buffer.                                      *)
(***************************************************************************)
ERROR_SUCCESS == 0
ERROR_INSUFFICIENT_BUFFER == 122
ERROR_NOT_FOUND == 1168
Status == {ERROR_SUCCESS, ERROR_INSUFFICIENT_BUFFER, ERROR_NOT_FOUND}

Guids == {"guid1", "guid2"}

\* the ways the callers write a call: lines 224 and 278 give the signatures
Calls ==
    {[fn |-> "tdh_enumerate_providers", args |-> <<>>, kwds |-> <<>>]}
    \cup {[fn |-> "tdh_get_provider_events", args |-> <<g>>, kwds |-> <<>>] : g \in Guids}
    \cup {[fn |-> "tdh_get_provider_events", args |-> <<>>,
           kwds |-> <<"provider_guid", g>>] : g \in Guids}

\* functools._make_key(args, kwds, typed=False): the positional arguments,
\* then, when there are keyword arguments, a marker and the name/value pairs
kwd_mark == "kwd_mark"
make_key(args, kwds) ==
    IF kwds = <<>> THEN args ELSE args \o <<kwd_mark>> \o kwds

\* each decorated function has a cache of its own: the function's name leads
KeyOf(c) == <<c.fn>> \o make_key(c.args, c.kwds)
Keys == {KeyOf(c) : c \in Calls}

\* the function a key belongs to, and the value bound to provider_guid
FnOf(k) == k[1]
provider_guid(k) == k[Len(k)]
SeqThreads == {1}
ConcThreads == {1, 2}

Zeros(n) == [i \in 1 .. n |-> 0]
U16(n) == <<n % 256, n \div 256>>
U32(n) == <<n % 256, (n \div 256) % 256, (n \div 65536) % 256, n \div 16777216>>

\* provider enumeration buffers: a header, one TRACE_PROVIDER_INFO, the name "A"
ProviderBuffer(n, schema, nameOffset) ==
    U32(n) \o U32(0) \o <<1>> \o Zeros(15) \o U32(schema) \o U32(nameOffset)
    \o <<65, 0, 0, 0>>
ProviderBuffers ==
    {ProviderBuffer(1, 0, 32),     \* one provider
     ProviderBuffer(2, 0, 32),     \* two announced, one fits
     ProviderBuffer(1, 5, 32),     \* a schema source outside the enum
     ProviderBuffer(1, 4, 36),     \* a name offset equal to the buffer length
     SubSeq(ProviderBuffer(1, 0, 32), 1, 34),   \* the name has no terminator
     U32(0) \o U32(0),             \* no provider
     Zeros(4)}                     \* shorter than the header

DescriptorBytes(id, version) ==
    U16(id) \o <<version, 0, 0, 0>> \o U16(0) \o <<1, 0, 0, 0, 0, 0, 0, 255>>
EventsBuffers ==
    {U32(0) \o U32(0),                                              \* no event
     U32(1) \o U32(0) \o DescriptorBytes(7, 0),                     \* one event
     U32(2) \o U32(0) \o DescriptorBytes(7, 0)}                     \* two announced, one fits

PropertyBytes(flags, nameOffset, intype, count, length) ==
    U32(flags) \o U32(nameOffset) \o U16(intype) \o U16(0) \o U32(0)
    \o U16(count) \o U16(length) \o U32(0)
\* event detail buffers: the header, two EVENT_PROPERTY_INFO, then the
\* strings "A " at 160 and "a" at 166
DetailBuffer(id, version, taskNameOffset, eventNameOffset, top, prop1, prop2) ==
    Zeros(32) \o DescriptorBytes(id, version) \o Zeros(20) \o U32(taskNameOffset)
    \o Zeros(20) \o U32(eventNameOffset) \o Zeros(4) \o U32(2) \o U32(top) \o U32(0)
    \o prop1 \o prop2 \o <<65, 0, 32, 0, 0, 0>> \o <<97, 0, 0, 0>>
PlainField == PropertyBytes(0, 166, 8, 0, 0)
DetailBuffers ==
    {DetailBuffer(7, 0, 0, 160, 2, PlainField,
                  PropertyBytes(PropertyParamLength, 166, 37, 0, 0)),
     DetailBuffer(7, 1, 160, 0, 1, PlainField, PlainField),
     DetailBuffer(7, 0, 0, 0, 1, PropertyBytes(PropertyParamLength, 166, 8, 0, 0),
                  PlainField),
     DetailBuffer(7, 0, 0, 0, 1,
                  PropertyBytes(PropertyParamFixedLength + PropertyParamFixedCount,
                                166, 8, 1, 4),
                  PlainField),
     DetailBuffer(7, 0, 0, 0, 3, PlainField, PlainField)}

(***************************************************************************)
(* ctypes.wstring_at, line 35, scans on past the buffer, so what a decoding *)
(* returns depends on the memory behind it: any run of mapped 16-bit units, *)
(* NUL or not, followed by unmapped memory.                                *)
(***************************************************************************)
TailUnits == {<<0, 0>>, <<65, 0>>}      \* NUL, 'A'
RECURSIVE TailsOf(_)
TailsOf(n) ==
    IF n = 0 THEN {<<>>}
    ELSE LET shorter == TailsOf(n - 1)
         IN  shorter \cup {t \o u : t \in {x \in shorter : Len(x) = WCHAR_SIZE * (n - 1)},
                                       u \in TailUnits}
Tails == TailsOf(MaxTailUnits)

NoOut == [exc |-> "", msg |-> "", ref |-> 0]
IdleFrame ==
    [pc |-> "idle", key |-> <<>>, qlog |-> <<>>, eqlog |-> <<>>, size |-> 0, buf |-> <<>>,
     g |-> NewGen(0, 1, 0), events |-> <<>>, desc |-> <<>>, ebuf |-> <<>>,
     out |-> NoOut]

InitEnc(threads) ==
    /\ thr = [t \in threads |-> IdleFrame]
    /\ cache = [k \in Keys |-> 0]
    /\ heap = [k \in Keys |-> <<>>]
    /\ nbody = [k \in Keys |-> 0]
    /\ nok = [k \in Keys |-> 0]
    /\ StrIdle /\ ArrIdle /\ FldIdle

InBody(f) == f.pc # "idle"

RECURSIVE Total(_, _)
Total(f, S) == IF S = {} THEN 0 ELSE LET k == CHOOSE x \in S : TRUE IN f[k] + Total(f, S \ {k})

\* the list object a frame's caller holds: the out.ref-th object made for its key
Held(f) == heap[f.key][f.out.ref]
\* what a call for key k returns while the key is cached
Cached(k) == heap[k][cache[k]]

\* the name of the TDH function a frame is negotiating with
QueryName(f) ==
    IF f.pc \in {"ev_size", "ev_fill"} THEN "TdhGetManifestEventInformation"
    ELSE IF FnOf(f.key) = "tdh_enumerate_providers" THEN "TdhEnumerateProviders"
    ELSE "TdhEnumerateManifestProviderEvents"

BuffersOf(f) ==
    IF f.pc \in {"ev_size", "ev_fill"} THEN DetailBuffers
    ELSE IF FnOf(f.key) = "tdh_enumerate_providers" THEN ProviderBuffers
    ELSE EventsBuffers

\* the wrapper's dictionary lookup
CacheHas(k) == cache[k] # 0

\* a faulty variant of Fails: the failed call leaves an empty list in the cache
FailsAndCachesEmptyList(t, f, e, m) ==
    /\ thr' = [thr EXCEPT ![t] =
                 [IdleFrame EXCEPT !.key = f.key, !.qlog = f.qlog, !.eqlog = f.eqlog,
                                   !.out = [exc |-> e, msg |-> m, ref |-> 0]]]
    /\ heap' = [heap EXCEPT ![f.key] = Append(@, <<>>)]
    /\ cache' = [cache EXCEPT ![f.key] = Len(heap[f.key]) + 1]
    /\ UNCHANGED <<nbody, nok>>

\* the call raises: the frame is left, the caller holds the exception
Fails(t, f, e, m) ==
    /\ thr' = [thr EXCEPT ![t] =
                 [IdleFrame EXCEPT !.key = f.key, !.qlog = f.qlog, !.eqlog = f.eqlog,
                                   !.out = [exc |-> e, msg |-> m, ref |-> 0]]]
    /\ UNCHANGED <<cache, heap, nbody, nok>>

\* the body returns `value`: the wrapper stores the new list object under the
\* key and hands it to the caller
Returns(t, f, value) ==
    LET ref == Len(heap[f.key]) + 1
    IN  /\ heap' = [heap EXCEPT ![f.key] = Append(@, value)]
        /\ cache' = [cache EXCEPT ![f.key] = ref]
        /\ nok' = [nok EXCEPT ![f.key] = @ + 1]
        /\ thr' = [thr EXCEPT ![t] =
                     [IdleFrame EXCEPT !.key = f.key, !.qlog = f.qlog, !.eqlog = f.eqlog,
                                       !.out = [exc |-> "", msg |-> "", ref |-> ref]]]
        /\ UNCHANGED nbody

\* the wrapper finds the key: no body runs
CallHit(t, k) ==
    /\ thr[t].pc = "idle"
    /\ CacheHas(k)
    /\ thr' = [thr EXCEPT ![t] =
                 [IdleFrame EXCEPT !.key = k,
                                   !.out = [exc |-> "", msg |-> "", ref |-> cache[k]]]]
    /\ UNCHANGED <<cache, heap, nbody, nok, strVars, arrVars, fldVars>>

\* the wrapper does not find the key: the body starts
CallMiss(t, k) ==
    /\ thr[t].pc = "idle"
    /\ ~CacheHas(k)
    /\ Total(nbody, Keys) < MaxQueries
    /\ thr' = [thr EXCEPT ![t] = [IdleFrame EXCEPT !.pc = "size", !.key = k]]
    /\ nbody' = [nbody EXCEPT ![k] = @ + 1]
    /\ UNCHANGED <<cache, heap, nok, strVars, arrVars, fldVars>>

\* the frame with the status a TDH call returned added to the log of the
\* negotiation it belongs to: qlog for the enumeration call, eqlog for the
\* event detail call of the current descriptor
Logged(f, rc) ==
    IF f.pc \in {"ev_size", "ev_fill"}
    THEN [f EXCEPT !.eqlog = Append(@, rc)]
    ELSE [f EXCEPT !.qlog = Append(@, rc)]

\* a faulty variant of SizeAccepted: ERROR_SUCCESS passes the size query
SizeAcceptedAlsoOnSuccess(rc) == rc \in {ERROR_INSUFFICIENT_BUFFER, ERROR_SUCCESS}

\* lines 233, 292, 311
SizeAccepted(rc) == rc = ERROR_INSUFFICIENT_BUFFER

\* lines 238, 298, 319
FillAccepted(rc) == rc = ERROR_SUCCESS

\* phase 1 of a negotiation: the call with no buffer, lines 231-234, 290-294, 308-313
SizeQuery(t) ==
    LET f == thr[t]
    IN  /\ f.pc \in {"size", "ev_size"}
        /\ \E rc \in Status, sample \in BuffersOf(f) :
             IF SizeAccepted(rc)
             THEN /\ thr' = [thr EXCEPT ![t] = [Logged(f, rc) EXCEPT
                               !.pc = IF f.pc = "size" THEN "fill" ELSE "ev_fill",
                               !.size = Len(sample)]]
                  /\ UNCHANGED <<cache, heap, nbody, nok>>
             ELSE Fails(t, Logged(f, rc), "EztwTdhException", QueryName(f) \o " failed")
        /\ UNCHANGED <<strVars, arrVars, fldVars>>

\* phase 2: the call with a buffer of exactly `size` bytes, lines 236-239,
\* 296-300, 315-321
FillQuery(t) ==
    LET f == thr[t]
    IN  /\ f.pc \in {"fill", "ev_fill"}
        /\ \E rc \in Status, sample \in {b \in BuffersOf(f) : Len(b) = f.size} :
             IF FillAccepted(rc)
             THEN /\ thr' = [thr EXCEPT ![t] =
                               IF f.pc = "fill"
                               THEN [Logged(f, rc) EXCEPT !.pc = "decode", !.buf = sample]
                               ELSE [Logged(f, rc) EXCEPT !.pc = "ev_decode", !.ebuf = sample]]
                  /\ UNCHANGED <<cache, heap, nbody, nok>>
             ELSE Fails(t, Logged(f, rc), "EztwTdhException", QueryName(f) \o " failed")
        /\ UNCHANGED <<strVars, arrVars, fldVars>>

\* tdh_enumerate_providers, lines 240-253
DecodeProviders(t) ==
    LET f == thr[t]
    IN  /\ f.pc = "decode" /\ FnOf(f.key) = "tdh_enumerate_providers"
        /\ \E tail \in Tails :
             LET r == decode_providers(f.buf, tail)
             IN  IF r.exc = "" THEN Returns(t, f, r.val) ELSE Fails(t, f, r.exc, r.msg)
        /\ UNCHANGED <<strVars, arrVars, fldVars>>

\* tdh_get_provider_events, lines 301-306: the header, and the generator is made
StartEvents(t) ==
    LET f == thr[t]
    IN  /\ f.pc = "decode" /\ FnOf(f.key) = "tdh_get_provider_events"
        /\ IF Len(f.buf) < SIZEOF_PROVIDER_EVENT_INFO
           THEN Fails(t, f, "ValueError", "Buffer size too small")
           ELSE /\ thr' = [thr EXCEPT ![t] =
                             [f EXCEPT !.pc = "loop", !.events = <<>>,
                                       !.g = NewGen(SIZEOF_PROVIDER_EVENT_INFO,
                                                    SIZEOF_EVENT_DESCRIPTOR,
                                                    ULONG_at(f.buf, 0))]]
                /\ UNCHANGED <<cache, heap, nbody, nok>>
        /\ UNCHANGED <<strVars, arrVars, fldVars>>

\* the for statement of line 305 asks the generator for the next descriptor;
\* when there is none the events are returned, line 376
NextDescriptor(t) ==
    LET f == thr[t]
        step == array_next(f.buf, f.g)
    IN  /\ f.pc = "loop"
        /\ CASE step.kind = "yield" ->
                  /\ thr' = [thr EXCEPT ![t] =
                               [f EXCEPT !.pc = "ev_size", !.g = step.g,
                                         !.desc = step.rec, !.eqlog = <<>>]]
                  /\ UNCHANGED <<cache, heap, nbody, nok>>
             [] step.kind = "raise" ->
                  Fails(t, f, "EztwTdhException", "Array of EVENT_DESCRIPTOR out of bounds")
             [] OTHER -> Returns(t, f, f.events)
        /\ UNCHANGED <<strVars, arrVars, fldVars>>

\* lines 322-375 on the event detail buffer
DecodeEvent(t) ==
    LET f == thr[t]
    IN  /\ f.pc = "ev_decode"
        /\ \E tail \in Tails :
             LET r == decode_event(f.ebuf, tail, provider_guid(f.key))
             IN  IF r.exc = ""
                 THEN /\ thr' = [thr EXCEPT ![t] =
                                   [f EXCEPT !.pc = "loop", !.ebuf = <<>>, !.eqlog = <<>>,
                                             !.desc = <<>>,
                                             !.events = Append(f.events, r.val)]]
                      /\ UNCHANGED <<cache, heap, nbody, nok>>
                 ELSE Fails(t, f, r.exc, r.msg)
        /\ UNCHANGED <<strVars, arrVars, fldVars>>

\* the lists are plain lists (and the entities plain dataclasses): a caller
\* that holds a returned list can change it, here with lst.pop()
Mutate(t) ==
    LET f == thr[t]
    IN  /\ f.pc = "idle" /\ f.out.ref # 0
        /\ Held(f) # <<>>
        /\ heap' = [heap EXCEPT ![f.key][f.out.ref] = SubSeq(@, 1, Len(@) - 1)]
        /\ UNCHANGED <<thr, cache, nbody, nok, strVars, arrVars, fldVars>>

NextSeq ==
    \/ \E t \in SeqThreads, k \in Keys : CallHit(t, k)
    \/ \E t \in SeqThreads, k \in Keys : CallMiss(t, k)
    \/ \E t \in SeqThreads : SizeQuery(t)
    \/ \E t \in SeqThreads : FillQuery(t)
    \/ \E t \in SeqThreads : DecodeProviders(t)
    \/ \E t \in SeqThreads : StartEvents(t)
    \/ \E t \in SeqThreads : NextDescriptor(t)
    \/ \E t \in SeqThreads : DecodeEvent(t)
    \/ \E t \in SeqThreads : Mutate(t)

\* the concurrent callers all write their calls positionally
ConcKeys == {KeyOf(c) : c \in {d \in Calls : d.kwds = <<>>}}

NextConc ==
    \/ \E t \in ConcThreads, k \in ConcKeys : CallHit(t, k)
    \/ \E t \in ConcThreads, k \in ConcKeys : CallMiss(t, k)
    \/ \E t \in ConcThreads : SizeQuery(t)
    \/ \E t \in ConcThreads : FillQuery(t)
    \/ \E t \in ConcThreads : DecodeProviders(t)
    \/ \E t \in ConcThreads : StartEvents(t)
    \/ \E t \in ConcThreads : NextDescriptor(t)
    \/ \E t \in ConcThreads : DecodeEvent(t)

InitSeq == InitEnc(SeqThreads)
InitConc == InitEnc(ConcThreads)
SpecSeq == InitSeq /\ [][NextSeq]_vars
SpecConc == InitConc /\ [][NextConc]_vars

(***************************************************************************)
(*                               Claims                                    *)
(***************************************************************************)

\* the string read_wstring_at returns at an offset of the harness buffer
StringAt(offset) == read_wstring_at(sbuf, stail, offset)

\* t is s without its trailing spaces, and without anything else removed
IsRightTrimOf(t, s) ==
    /\ Len(t) <= Len(s)
    /\ t = SubSeq(s, 1, Len(t))
    /\ \A i \in Len(t) + 1 .. Len(s) : s[i] = SPACE
    /\ (t = <<>> \/ t[Len(t)] # SPACE)

NameComesFrom(offset) ==
    LET src == StringAt(offset)
    IN  /\ sres.r.exc = src.exc
        /\ src.exc = "" => /\ sres.r.val # None
                           /\ IsRightTrimOf(sres.r.val[1], src.val[1])

\* C3 (as claimed): read_wstring_at either raises the out-of-bounds error or
\* touches no byte at a position >= len(buf).
C3_NeverReadsPastBuffer ==
    sres.op = "read_wstring_at" =>
        (sres.r.exc = "EztwTdhException" \/ sres.r.hi <= Len(sbuf))

\* C9: the event name is the string at EventNameOffset when that is non-zero,
\* else the string at TaskNameOffset when that is non-zero, else None; the
\* chosen string loses its trailing spaces and nothing else.
C9_EventNameResolution ==
    sres.op = "event_name" =>
        /\ sres.a > 0 => NameComesFrom(sres.a)
        /\ (sres.a = 0 /\ sres.b > 0) => NameComesFrom(sres.b)
        /\ (sres.a = 0 /\ sres.b = 0) => (sres.r.exc = "" /\ sres.r.val = None)

\* C9 witness: the task name is used as the fallback and trailing spaces were cut
C9_Witness ==
    /\ sres.op = "event_name" /\ sres.a = 0 /\ sres.b > 0
    /\ sres.r.exc = "" /\ sres.r.val # None
    /\ Len(sres.r.val[1]) >= 1
    /\ StringAt(sres.b).exc = ""
    /\ Len(sres.r.val[1]) < Len(StringAt(sres.b).val[1])

\* whole records of gen.size bytes between gen.offset and the end of abuf
Fit == IF gen.offset > Len(abuf) THEN 0 ELSE (Len(abuf) - gen.offset) \div gen.size

\* C4 (as claimed): when fewer than n whole records fit, the caller observes
\* zero records and the generator fails with the array-out-of-bounds error.
C4_ZeroRecordsBeforeFailure ==
    Fit < gen.n => (yielded = <<>> /\ gen.state # "StopIteration")

\* C4 (amended): when fewer than n whole records fit, iterate_array_of first
\* yields every whole record that fits, in order, and fails with the
\* array-out-of-bounds error only when asked for the next one; it never ends
\* normally.  The failure is raised in no other case.
C4_YieldsFittingRecordsThenFails ==
    /\ Len(yielded) <= Fit
    /\ \A j \in 1 .. Len(yielded) :
         yielded[j] = SubSeq(abuf, gen.offset + (j - 1) * gen.size + 1,
                             gen.offset + j * gen.size)
    /\ gen.state = "EztwTdhException" => (Fit < gen.n /\ Len(yielded) = Fit)
    /\ gen.state = "StopIteration" => (Fit >= gen.n /\ Len(yielded) = gen.n)

\* C4 witness: the failure came after two records had reached the caller
C4_Witness == gen.state = "EztwTdhException" /\ Len(yielded) = 2

\* the record the field loop ended on, when its name was read
EndedOn(P(_)) ==
    /\ fstate.pc = "raised"
    /\ fstate.last # None
    /\ fstate.last[1].nameOk
    /\ P(fstate.last[1].p)

ParamLengthRef(p) ==
    HasFlag(p.Flags, PropertyParamLength) /\ ~HasFlag(p.Flags, PropertyParamFixedLength)
ParamCountRef(p) ==
    HasFlag(p.Flags, PropertyParamCount) /\ ~HasFlag(p.Flags, PropertyParamFixedCount)
LengthResolves(p) ==
    HasFlag(p.Flags, PropertyParamFixedLength)
    \/ (HasFlag(p.Flags, PropertyParamLength) /\ p.length < Len(fields))
CountResolves(p) ==
    HasFlag(p.Flags, PropertyParamFixedCount)
    \/ (HasFlag(p.Flags, PropertyParamCount) /\ p.count < Len(fields))
LengthIndexNotYetDecoded(p) == ParamLengthRef(p) /\ p.length >= Len(fields)
CountIndexNotYetDecoded(p) ==
    (LengthResolves(p) \/ ~HasFlag(p.Flags, PropertyParamLength))
    /\ ParamCountRef(p) /\ p.count >= Len(fields)
BothResolve(p) == LengthResolves(p) /\ CountResolves(p)

\* C2 (as claimed): a parameterized length (count) whose index is >= the number
\* of fields decoded so far ends the decoding with EztwTdhException.
C2_IndexNotYetDecodedRaisesTdhError ==
    (EndedOn(LengthIndexNotYetDecoded) \/ EndedOn(CountIndexNotYetDecoded))
        => fstate.exc = "EztwTdhException"

\* C7: no field of the list has both length and count, and a record on which
\* both resolve ends the decoding with an assertion failure: no event is
\* appended.
C7_LengthCountNeverBoth ==
    /\ \A i \in 1 .. Len(fields) :
         fields[i].length.kind = "None" \/ fields[i].count.kind = "None"
    /\ EndedOn(BothResolve) => fstate.exc = "AssertionError"
    /\ fstate.exc = "AssertionError" => EndedOn(BothResolve)

\* C7 witness: a record with both resolved met the assertion after a field was appended
C7_Witness ==
    /\ EndedOn(BothResolve) /\ fstate.exc = "AssertionError" /\ Len(fields) >= 1
    /\ HasFlag(fstate.last[1].p.Flags, PropertyParamLength)
    /\ ~HasFlag(fstate.last[1].p.Flags, PropertyParamFixedLength)

NegotiationFailed(f) ==
    /\ f.pc = "idle"
    /\ f.out.exc = "EztwTdhException"
    /\ f.out.msg \in {"TdhEnumerateProviders failed",
                      "TdhEnumerateManifestProviderEvents failed",
                      "TdhGetManifestEventInformation failed"}
    /\ f.buf = <<>> /\ f.ebuf = <<>>

\* the statuses of a negotiation, in call order, and whether its buffer exists
WellNegotiated(log, filling, filled, f) ==
    /\ Len(log) <= 2
    /\ filling => log = <<ERROR_INSUFFICIENT_BUFFER>>
    /\ filled => log = <<ERROR_INSUFFICIENT_BUFFER, ERROR_SUCCESS>>
    /\ (Len(log) >= 1 /\ log[1] # ERROR_INSUFFICIENT_BUFFER)
          => (Len(log) = 1 /\ NegotiationFailed(f))
    /\ (Len(log) = 2 /\ log[2] # ERROR_SUCCESS) => NegotiationFailed(f)

\* C1: in each of the three negotiations the second call is made only after
\* the first returned INSUFFICIENT_BUFFER, a buffer is decoded only after the
\* second returned SUCCESS, and any other status of either call ends the
\* operation with the negotiation's error: no second call, no decoding.
C1_TwoPhaseNegotiation ==
    \A t \in DOMAIN thr :
        LET f == thr[t]
        IN  /\ WellNegotiated(f.qlog, f.pc = "fill",
                               f.pc \in {"decode", "loop"} \/ f.buf # <<>>, f)
            /\ WellNegotiated(f.eqlog, f.pc = "ev_fill",
                               f.pc = "ev_decode" \/ f.ebuf # <<>>, f)

\* C1 witness: an event detail buffer is about to be decoded, its two calls made
C1_Witness ==
    \E t \in DOMAIN thr :
        /\ thr[t].pc = "ev_decode" /\ thr[t].ebuf # <<>>
        /\ thr[t].eqlog = <<ERROR_INSUFFICIENT_BUFFER, ERROR_SUCCESS>>

\* the cache holds an entry for key k
HasEntry(k) == cache[k] # 0

\* a call of thread t ends with this step
Completes(t) == InBody(thr[t]) /\ ~InBody(thr[t])'

\* two keys of one entry point that bind the same input
SameInput(j, k) == FnOf(j) = FnOf(k) /\ provider_guid(j) = provider_guid(k)

\* C5 (as claimed): with sequential callers, once a call with some input has
\* returned a result, every later call with the same input (the same provider
\* guid, however the call is written) triggers no further underlying query
\* and returns the identical list object.
C5_SameInputNoFurtherQuery ==
    [][\A j \in Keys :
         HasEntry(j) =>
            \A k \in Keys :
                SameInput(j, k) =>
                    /\ nbody[k]' = nbody[k]
                    /\ \A t \in DOMAIN thr :
                         (thr[t].pc = "idle" /\ thr[t]' # thr[t] /\ thr[t].key' = k) =>
                            /\ ~InBody(thr[t])'
                            /\ k = j
                            /\ thr[t].out' = [exc |-> "", msg |-> "", ref |-> cache[j]]]_vars

\* C6 (as claimed): at most one underlying query per key is in flight, and
\* the callers of one key all receive one and the same result.
C6_AtMostOneQueryInFlight ==
    \A k \in Keys :
        /\ Cardinality({t \in DOMAIN thr : InBody(thr[t]) /\ thr[t].key = k}) <= 1
        /\ nok[k] <= 1

\* C8 (as claimed): what a call for a key returns is the value that was
\* decoded for the key, whatever the callers did with the lists returned to
\* them: the value under a cached key never changes.
C8_CachedValueNeverChanges ==
    [][\A k \in Keys :
         HasEntry(k) => (HasEntry(k)' /\ Cached(k)' = Cached(k))]_vars

\* C10: a call that fails leaves the cache as it was, with no entry for its
\* key; the entries of the other keys are untouched.
C10_FailureNotCached ==
    [][\A t \in DOMAIN thr :
         (Completes(t) /\ thr[t].out.exc' # "") =>
            /\ cache' = cache /\ heap' = heap
            /\ ~HasEntry(thr[t].key)']_vars

\* C10 witness: after a failure for a key the next call ran the body again and
\* failed again, while another key stayed cached
C10_Witness ==
    \E t \in DOMAIN thr, k \in Keys :
        /\ thr[t].pc = "idle" /\ thr[t].out.exc # "" /\ nbody[thr[t].key] = 2
        /\ ~HasEntry(thr[t].key)
        /\ k # thr[t].key /\ HasEntry(k)

=============================================================================
